---- MODULE Spec2Model ----
(***************************************************************************)
(* Model of ALG_LAB4.cpp: class Graph (adjacency matrix, adjacency list,   *)
(* edge list, cached incidence matrix), generate_graph, bfs_shortest_path  *)
(* and dfs_shortest_path.                                                  *)
(*                                                                         *)
(* Fixed-size vectors (adj_matrix_, the rows of inc_matrix_, visited,      *)
(* parent, the per-vertex counters) are functions over 0..n-1, as the code *)
(* indexes them.  Vectors that grow by push_back (edges_, adj_list_[u],    *)
(* path) and the queue / stack are sequences; index i of the code is       *)
(* position i+1 of the sequence.                                           *)
(*                                                                         *)
(* Three specifications share the variables:                               *)
(*   Spec        a Graph object under add_edge / get_inc_matrix calls;     *)
(*   SearchSpec  bfs_shortest_path and dfs_shortest_path on a built Graph, *)
(*               one step per iteration of the outer while loop;           *)
(*   GenSpec     generate_graph, one step per iteration of its while loop. *)
(***************************************************************************)
EXTENDS Integers, Sequences, FiniteSets, TLC

\* ------------------------------------------------------------------ bounds
\* Largest vertex count handed to the Graph constructor in Spec.
MaxVertices == 3
\* Largest number of add_edge calls on one Graph in Spec.
MaxEdges == 2
\* Weights handed to add_edge in Spec: zero and the weights of the
\* incidence-matrix scenario.
Weights == {0, 2, 3}
\* Largest vertex count of the graphs searched in SearchSpec.
SearchVertices == 3
\* Largest number of add_edge calls that build a graph searched in SearchSpec.
SearchEdges == 3
\* Largest value of the vertex-count and edge-count parameters in GenSpec.
GenVertices == 3
GenEdges == 3
\* Largest in-degree / out-degree cap in GenSpec.
MaxCap == 2
\* rand() returns a value in 0 .. MaxRand when it picks a count or a vertex.
MaxRand == 3
\* rand() values for the weight draw of line 264.
WeightRands == {100}

\* add_edge's default weight (int weight = 1).
DefaultWeight == 1

VARIABLES
    \* The Graph object (Graph g of generate_graph and of the searches): a
    \* record of the class's fields.
    g,
    \* History: the (u, v, weight) of every add_edge call on g, in call order.
    calls,
    \* The value returned by the last get_inc_matrix call (empty before it).
    ret,
    \* Position in the running function.
    pc,
    \* bfs_shortest_path / dfs_shortest_path: parameters, locals, returned vector.
    source, target, num_vertices, visited, parent, q, s, result,
    \* generate_graph: parameters (max_edges_per_vertex is never read by the
    \* code and is left out) and locals.
    min_vertices, max_vertices, min_edges, max_edges, directed,
    max_incoming_edges, max_outgoing_edges,
    num_edges, edges_per_vertex, incoming_edges_per_vertex,
    outgoing_edges_per_vertex,
    \* History: the value num_edges was given by the draw of line 241.
    drawn_num_edges

graphVars == <<g, calls, ret>>
searchVars == <<source, target, visited, parent, q, s, result>>
genArgs == <<min_vertices, max_vertices, min_edges, max_edges, directed,
             max_incoming_edges, max_outgoing_edges>>
genLocals == <<num_edges, edges_per_vertex, incoming_edges_per_vertex,
               outgoing_edges_per_vertex, drawn_num_edges>>
vars == <<graphVars, pc, num_vertices, searchVars, genArgs, genLocals>>

\* ------------------------------------------------------------------ Graph
Vertices(n) == 0 .. (n - 1)

\* An empty vector.
EmptyVec == [i \in {} |-> 0]

\* vector::empty()
empty(vec) == DOMAIN vec = {}

\* abs()
abs(x) == IF x < 0 THEN -x ELSE x

\* Graph::Graph(int vertices, bool directed); edges_ and inc_matrix_ are
\* default-constructed (empty).
Graph(vertices, is_directed) ==
    [ vertices_   |-> vertices,
      directed_   |-> is_directed,
      adj_matrix_ |-> [i \in Vertices(vertices) |-> [j \in Vertices(vertices) |-> 0]],
      adj_list_   |-> [i \in Vertices(vertices) |-> << >>],
      edges_      |-> << >>,
      inc_matrix_ |-> EmptyVec ]

\* add_edge that never writes adj_matrix_[v][u] (directed_ is not consulted).
add_edge_one_way(G, u, v, weight) ==
    [G EXCEPT !.adj_matrix_ = [G.adj_matrix_ EXCEPT ![u][v] = weight],
              !.adj_list_ = [G.adj_list_ EXCEPT ![u] = Append(@, <<v, weight>>)],
              !.edges_ = Append(G.edges_, <<u, v>>)]

\* add_edge that always writes adj_matrix_[v][u] (directed_ is not consulted).
add_edge_both_ways(G, u, v, weight) ==
    [G EXCEPT !.adj_matrix_ =
                 [[G.adj_matrix_ EXCEPT ![v][u] = weight] EXCEPT ![u][v] = weight],
              !.adj_list_ = [G.adj_list_ EXCEPT ![u] = Append(@, <<v, weight>>)],
              !.edges_ = Append(G.edges_, <<u, v>>)]

\* add_edge that records an undirected edge in edges_ once per direction.
add_edge_two_pairs(G, u, v, weight) ==
    LET m1 == [G.adj_matrix_ EXCEPT ![u][v] = weight]
        l1 == [G.adj_list_ EXCEPT ![u] = Append(@, <<v, weight>>)]
        e1 == Append(G.edges_, <<u, v>>)
    IN  IF G.directed_
        THEN [G EXCEPT !.adj_matrix_ = m1, !.adj_list_ = l1, !.edges_ = e1]
        ELSE [G EXCEPT !.adj_matrix_ = [m1 EXCEPT ![v][u] = weight],
                       !.adj_list_ = l1, !.edges_ = Append(e1, <<v, u>>)]

\* Graph::add_edge(u, v, weight): the new value of the object.
add_edge(G, u, v, weight) ==
    LET m1 == [G.adj_matrix_ EXCEPT ![u][v] = weight]
        l1 == [G.adj_list_ EXCEPT ![u] = Append(@, <<v, weight>>)]
        e1 == Append(G.edges_, <<u, v>>)
        \* adj_matrix_[u][v] = adj_matrix_[v][u] = weight assigns [v][u] first
        m2 == IF G.directed_
              THEN [m1 EXCEPT ![u][v] = weight]
              ELSE [[m1 EXCEPT ![v][u] = weight] EXCEPT ![u][v] = weight]
    IN  [G EXCEPT !.adj_matrix_ = m2, !.adj_list_ = l1, !.edges_ = e1]

\* Graph::get_adj_matrix()
get_adj_matrix(G) == G.adj_matrix_

\* Graph::get_adj_list()
get_adj_list(G) == G.adj_list_

\* Graph::get_edges()
get_edges(G) == G.edges_

\* The for loop of get_inc_matrix reading the weight at adj_matrix_[v][u].
RECURSIVE inc_loop_transposed(_, _, _)
inc_loop_transposed(G, inc, i) ==
    IF i < Len(G.edges_)
    THEN LET u == G.edges_[i + 1][1]
             v == G.edges_[i + 1][2]
             weight == abs(G.adj_matrix_[v][u])
             inc1 == [inc EXCEPT ![u][i] = weight]
             inc2 == [inc1 EXCEPT ![v][i] = IF G.directed_ THEN -weight ELSE weight]
         IN  inc_loop_transposed(G, inc2, i + 1)
    ELSE inc

\* The for loop of get_inc_matrix writing -weight at row v whatever directed_ is.
RECURSIVE inc_loop_signed(_, _, _)
inc_loop_signed(G, inc, i) ==
    IF i < Len(G.edges_)
    THEN LET u == G.edges_[i + 1][1]
             v == G.edges_[i + 1][2]
             weight == abs(G.adj_matrix_[u][v])
             inc1 == [inc EXCEPT ![u][i] = weight]
             inc2 == [inc1 EXCEPT ![v][i] = -weight]
         IN  inc_loop_signed(G, inc2, i + 1)
    ELSE inc

\* The for loop of get_inc_matrix from index i on, inc being inc_matrix_ so far.
RECURSIVE inc_loop(_, _, _)
inc_loop(G, inc, i) ==
    IF i < Len(G.edges_)
    THEN LET u == G.edges_[i + 1][1]
             v == G.edges_[i + 1][2]
             weight == abs(G.adj_matrix_[u][v])
             inc1 == [inc EXCEPT ![u][i] = weight]
             inc2 == [inc1 EXCEPT ![v][i] = IF G.directed_ THEN -weight ELSE weight]
         IN  inc_loop(G, inc2, i + 1)
    ELSE inc

\* get_inc_matrix that rebuilds inc_matrix_ on every call.
get_inc_matrix_fresh(G) ==
    [G EXCEPT !.inc_matrix_ =
        inc_loop(G,
                 [r \in Vertices(G.vertices_) |->
                    [c \in Vertices(Len(G.edges_)) |-> 0]],
                 0)]

\* Graph::get_inc_matrix(): the object after the call; the value returned is
\* its inc_matrix_.
get_inc_matrix(G) ==
    IF empty(G.inc_matrix_)
    THEN [G EXCEPT !.inc_matrix_ =
            inc_loop(G,
                     [r \in Vertices(G.vertices_) |->
                        [c \in Vertices(Len(G.edges_)) |-> 0]],
                     0)]
    ELSE G

\* ------------------------------------------------- Spec: a Graph and its calls
\* The variables of a function that is not running.
SearchIdle ==
    /\ source = 0 /\ target = 0
    /\ visited = EmptyVec /\ parent = EmptyVec
    /\ q = << >> /\ s = << >> /\ result = << >>

GenIdle ==
    /\ min_vertices = 0 /\ max_vertices = 0 /\ min_edges = 0 /\ max_edges = 0
    /\ directed = FALSE /\ max_incoming_edges = 0 /\ max_outgoing_edges = 0
    /\ num_edges = 0 /\ edges_per_vertex = EmptyVec
    /\ incoming_edges_per_vertex = EmptyVec
    /\ outgoing_edges_per_vertex = EmptyVec
    /\ drawn_num_edges = 0

Init ==
    /\ \E n \in 1 .. MaxVertices, d \in BOOLEAN : g = Graph(n, d)
    /\ calls = << >>
    /\ ret = EmptyVec
    /\ pc = "graph"
    /\ num_vertices = 0
    /\ SearchIdle
    /\ GenIdle

AddEdge(u, v, weight) ==
    /\ Len(g.edges_) < MaxEdges
    /\ g' = add_edge(g, u, v, weight)
    /\ calls' = Append(calls, <<u, v, weight>>)
    /\ UNCHANGED <<ret, pc, num_vertices, searchVars, genArgs, genLocals>>

GetIncMatrix ==
    /\ g' = get_inc_matrix(g)
    /\ ret' = g'.inc_matrix_
    /\ UNCHANGED <<calls, pc, num_vertices, searchVars, genArgs, genLocals>>

Next ==
    \/ \E u \in Vertices(g.vertices_), v \in Vertices(g.vertices_), w \in Weights :
          AddEdge(u, v, w)
    \/ GetIncMatrix

Spec == Init /\ [][Next]_vars

\* ------------------------------- RangeSpec: calls with out-of-range indices
\* The indices handed to a call: those of the graph and the two just outside.
Indices(n) == (-1) .. n

\* What add_edge writes inside its vectors when u or v is out of range:
\* edges_.push_back (line 104) and, for u in range, adj_list_[u].push_back
\* (line 103).  Lines 102 and 109 index adj_matrix_ out of bounds.
add_edge_in_bounds_writes(G, u, v, weight) ==
    [G EXCEPT !.adj_list_ = IF u \in Vertices(G.vertices_)
                            THEN [G.adj_list_ EXCEPT ![u] = Append(@, <<v, weight>>)]
                            ELSE G.adj_list_,
              !.edges_ = Append(G.edges_, <<u, v>>)]

\* add_edge(u, v, weight) with u or v outside [0, vertices_): operator[] of
\* lines 102-109 is out of bounds, which is undefined behaviour.  The process
\* is killed at the access, or the call returns with its in-bounds writes
\* done.
add_edge_out_of_range(u, v, weight) ==
    /\ pc = "graph"
    /\ Len(g.edges_) < MaxEdges
    /\ ~(u \in Vertices(g.vertices_) /\ v \in Vertices(g.vertices_))
    /\ \/ pc' = "crashed" /\ g' = g
       \/ pc' = "undefined" /\ g' = add_edge_in_bounds_writes(g, u, v, weight)
    /\ UNCHANGED <<calls, ret, num_vertices, searchVars, genArgs, genLocals>>

\* bfs_shortest_path(g, a, b) with a or b outside [0, vertices_):
\* visited[source] (line 299) or visited[target] (line 313) is out of bounds,
\* which is undefined behaviour.  The process is killed, or the call returns
\* the empty vector (the word read as visited[target] is 0) or the vector
\* <<b>> (that word is not 0 and the word read as parent[b] is -1).
bfs_out_of_range(a, b) ==
    /\ pc = "graph"
    /\ ~(a \in Vertices(g.vertices_) /\ b \in Vertices(g.vertices_))
    /\ \/ pc' = "crashed" /\ result' = result
       \/ pc' = "bfs_undefined" /\ result' \in {<< >>, <<b>>}
    /\ UNCHANGED <<graphVars, num_vertices, source, target, visited, parent, q, s,
                   genArgs, genLocals>>

\* dfs_shortest_path(g, a, b) with a or b outside [0, vertices_): lines 345
\* and 364, as for bfs_shortest_path.
dfs_out_of_range(a, b) ==
    /\ pc = "graph"
    /\ ~(a \in Vertices(g.vertices_) /\ b \in Vertices(g.vertices_))
    /\ \/ pc' = "crashed" /\ result' = result
       \/ pc' = "dfs_undefined" /\ result' \in {<< >>, <<b>>}
    /\ UNCHANGED <<graphVars, num_vertices, source, target, visited, parent, q, s,
                   genArgs, genLocals>>

\* The calls of Spec are made while no call has gone out of bounds.
RangeNext ==
    \/ pc = "graph" /\ Next
    \/ \E u \in Indices(g.vertices_), v \in Indices(g.vertices_), w \in Weights :
          add_edge_out_of_range(u, v, w)
    \/ \E a \in Indices(g.vertices_), b \in Indices(g.vertices_) :
          bfs_out_of_range(a, b)
    \/ \E a \in Indices(g.vertices_), b \in Indices(g.vertices_) :
          dfs_out_of_range(a, b)

RangeSpec == Init /\ [][RangeNext]_vars

\* ----------------------------------------------------- the two searches
\* vector::size()
size(vec) == Cardinality(DOMAIN vec)

\* std::reverse on a whole vector.
reverse(vec) == [i \in 1 .. Len(vec) |-> vec[Len(vec) + 1 - i]]

\* The for loop of lines 304-310 scanning the neighbours from the highest
\* index down.
RECURSIVE bfs_for_descending(_, _, _, _)
bfs_for_descending(G, st, u, v) ==
    IF v < size(get_adj_matrix(G))
    THEN LET w == size(get_adj_matrix(G)) - 1 - v
         IN  IF get_adj_matrix(G)[u][w] # 0 /\ st.visited[w] = 0
             THEN bfs_for_descending(G,
                    [visited |-> [st.visited EXCEPT ![w] = 1],
                     parent  |-> [st.parent EXCEPT ![w] = u],
                     q       |-> Append(st.q, w)],
                    u, v + 1)
             ELSE bfs_for_descending(G, st, u, v + 1)
    ELSE st

\* The for loop of lines 304-310 writing parent[v] for every nonzero entry,
\* visited or not.
RECURSIVE bfs_for_overwriting(_, _, _, _)
bfs_for_overwriting(G, st, u, v) ==
    IF v < size(get_adj_matrix(G))
    THEN IF get_adj_matrix(G)[u][v] # 0
         THEN bfs_for_overwriting(G,
                [visited |-> [st.visited EXCEPT ![v] = 1],
                 parent  |-> [st.parent EXCEPT ![v] = u],
                 q       |-> IF st.visited[v] = 0 THEN Append(st.q, v) ELSE st.q],
                u, v + 1)
         ELSE bfs_for_overwriting(G, st, u, v + 1)
    ELSE st

\* The for loop of bfs_shortest_path (lines 304-310) from v on; st holds
\* visited, parent and q.
RECURSIVE bfs_for(_, _, _, _)
bfs_for(G, st, u, v) ==
    IF v < size(get_adj_matrix(G))
    THEN IF get_adj_matrix(G)[u][v] # 0 /\ st.visited[v] = 0
         THEN bfs_for(G,
                      [visited |-> [st.visited EXCEPT ![v] = 1],
                       parent  |-> [st.parent EXCEPT ![v] = u],
                       q       |-> Append(st.q, v)],
                      u, v + 1)
         ELSE bfs_for(G, st, u, v + 1)
    ELSE st

\* The while loop that rebuilds the path in bfs_shortest_path (lines 316-319).
RECURSIVE bfs_path_loop(_, _, _)
bfs_path_loop(par, u, path) ==
    IF u # -1
    THEN bfs_path_loop(par, par[u], Append(path, u))
    ELSE path

\* The return of bfs_shortest_path without the visited[target] test.
bfs_result_unchecked(vis, par, tgt) ==
    reverse(bfs_path_loop(par, tgt, << >>))

\* The return of bfs_shortest_path testing parent[target] instead of
\* visited[target].
bfs_result_by_parent(vis, par, tgt) ==
    IF par[tgt] # -1
    THEN reverse(bfs_path_loop(par, tgt, << >>))
    ELSE << >>

\* Lines 313-325 of bfs_shortest_path: the vector returned.
bfs_result(vis, par, tgt) ==
    IF vis[tgt] # 0
    THEN reverse(bfs_path_loop(par, tgt, << >>))
    ELSE << >>

\* The for loop of lines 351-360 with the break taken after any push.
RECURSIVE dfs_for_break_always(_, _, _, _, _)
dfs_for_break_always(G, st, u, v, tgt) ==
    IF v < size(get_adj_matrix(G))
    THEN IF get_adj_matrix(G)[u][v] # 0 /\ st.visited[v] = 0
         THEN [visited |-> [st.visited EXCEPT ![v] = 1],
               parent  |-> [st.parent EXCEPT ![v] = u],
               s       |-> Append(st.s, v)]
         ELSE dfs_for_break_always(G, st, u, v + 1, tgt)
    ELSE st

\* The for loop of dfs_shortest_path (lines 351-360) from v on, with its
\* break; st holds visited, parent and s (the top of the stack is the last
\* element).
RECURSIVE dfs_for(_, _, _, _, _)
dfs_for(G, st, u, v, tgt) ==
    IF v < size(get_adj_matrix(G))
    THEN IF get_adj_matrix(G)[u][v] # 0 /\ st.visited[v] = 0
         THEN LET st1 == [visited |-> [st.visited EXCEPT ![v] = 1],
                          parent  |-> [st.parent EXCEPT ![v] = u],
                          s       |-> Append(st.s, v)]
              IN  IF v = tgt THEN st1 ELSE dfs_for(G, st1, u, v + 1, tgt)
         ELSE dfs_for(G, st, u, v + 1, tgt)
    ELSE st

\* The while loop that rebuilds the path in dfs_shortest_path (lines 367-370).
RECURSIVE dfs_path_loop(_, _, _)
dfs_path_loop(par, u, path) ==
    IF u # -1
    THEN dfs_path_loop(par, par[u], Append(path, u))
    ELSE path

\* The return of dfs_shortest_path without the reverse of line 371.
dfs_result_unreversed(vis, par, tgt) ==
    IF vis[tgt] # 0
    THEN dfs_path_loop(par, tgt, << >>)
    ELSE << >>

\* Lines 364-377 of dfs_shortest_path: the vector returned.
dfs_result(vis, par, tgt) ==
    IF vis[tgt] # 0
    THEN reverse(dfs_path_loop(par, tgt, << >>))
    ELSE << >>

\* ---- the graphs searched: built by add_edge calls on a constructed Graph
\* The calls of the sequence es made in order on G.
RECURSIVE add_edges(_, _)
add_edges(G, es) ==
    IF es = << >> THEN G
    ELSE add_edges(add_edge(G, es[1][1], es[1][2], es[1][3]), Tail(es))

\* The pairs of the set S in ascending (u, v) order, each with the default weight.
RECURSIVE CallsOf(_)
CallsOf(S) ==
    IF S = {} THEN << >>
    ELSE LET m == CHOOSE x \in S : \A y \in S :
                      x[1] < y[1] \/ (x[1] = y[1] /\ x[2] <= y[2])
         IN  <<(<<m[1], m[2], DefaultWeight>>)>> \o CallsOf(S \ {m})

\* The call sequences that build the searched graphs on n vertices.
CallSeqs(n) ==
    { CallsOf(S) : S \in { T \in SUBSET (Vertices(n) \X Vertices(n)) :
                              Cardinality(T) <= SearchEdges } }

\* The scenario graph: vertices {0,1,2,3}, undirected edges (0,1,5), (1,2,3),
\* (0,2,1), (2,3,4).
ScenarioGraph ==
    [n |-> 4, d |-> FALSE,
     es |-> << <<0, 1, 5>>, <<1, 2, 3>>, <<0, 2, 1>>, <<2, 3, 4>> >>]

\* A directed graph in which the depth-first order reaches vertex 4 from
\* vertex 0 over three edges although two suffice.
DetourGraph ==
    [n |-> 5, d |-> TRUE,
     es |-> << <<0, 1, 1>>, <<0, 2, 1>>, <<2, 3, 1>>, <<3, 4, 1>>, <<1, 4, 1>> >>]

\* A graph with two minimum-hop paths from 0 to 3, 0-1-3 and 0-2-3, built
\* with the edges at 2 added before those at 1.
DiamondGraph ==
    [n |-> 4, d |-> FALSE,
     es |-> << <<0, 2, 1>>, <<0, 1, 1>>, <<2, 3, 1>>, <<1, 3, 1>> >>]

\* Constructor arguments and add_edge calls of every graph searched.
SearchGraphs ==
    { [n |-> n, d |-> d, es |-> es] :
        n \in {SearchVertices}, d \in BOOLEAN, es \in CallSeqs(SearchVertices) }
    \cup { [n |-> n, d |-> d, es |-> << >>] : n \in 1 .. SearchVertices, d \in BOOLEAN }
    \cup {ScenarioGraph, DetourGraph, DiamondGraph}

SearchInit ==
    /\ \E in \in SearchGraphs :
          /\ g = add_edges(Graph(in.n, in.d), in.es)
          /\ calls = in.es
          /\ \E a \in Vertices(in.n), b \in Vertices(in.n) :
                source = a /\ target = b
    /\ ret = EmptyVec
    /\ pc = "call"
    /\ num_vertices = 0
    /\ visited = EmptyVec /\ parent = EmptyVec
    /\ q = << >> /\ s = << >> /\ result = << >>
    /\ GenIdle

\* bfs_shortest_path, lines 294-299.
bfs_start ==
    /\ pc = "call"
    /\ num_vertices' = size(get_adj_matrix(g))
    /\ visited' = [[i \in Vertices(num_vertices') |-> 0] EXCEPT ![source] = 1]
    /\ parent' = [i \in Vertices(num_vertices') |-> -1]
    /\ q' = <<source>>
    /\ pc' = "bfs_while"
    /\ UNCHANGED <<graphVars, source, target, s, result, genArgs, genLocals>>

\* The iteration of bfs_shortest_path taking the newest vertex of q, not the
\* oldest.
bfs_while_lifo ==
    /\ pc = "bfs_while"
    /\ q # << >>
    /\ LET st == bfs_for(g, [visited |-> visited, parent |-> parent,
                             q |-> SubSeq(q, 1, Len(q) - 1)],
                         q[Len(q)], 0)
       IN  /\ visited' = st.visited
           /\ parent' = st.parent
           /\ q' = st.q
    /\ UNCHANGED <<graphVars, pc, num_vertices, source, target, s, result,
                   genArgs, genLocals>>

\* One iteration of the while loop of bfs_shortest_path, lines 301-311.
bfs_while ==
    /\ pc = "bfs_while"
    /\ q # << >>
    /\ LET st == bfs_for(g, [visited |-> visited, parent |-> parent, q |-> Tail(q)],
                         Head(q), 0)
       IN  /\ visited' = st.visited
           /\ parent' = st.parent
           /\ q' = st.q
    /\ UNCHANGED <<graphVars, pc, num_vertices, source, target, s, result,
                   genArgs, genLocals>>

\* bfs_shortest_path once the queue is empty, lines 313-325.
bfs_return ==
    /\ pc = "bfs_while"
    /\ q = << >>
    /\ result' = bfs_result(visited, parent, target)
    /\ pc' = "bfs_return"
    /\ UNCHANGED <<graphVars, num_vertices, source, target, visited, parent, q, s,
                   genArgs, genLocals>>

\* dfs_shortest_path, lines 340-345.
dfs_start ==
    /\ pc = "call"
    /\ num_vertices' = size(get_adj_matrix(g))
    /\ visited' = [[i \in Vertices(num_vertices') |-> 0] EXCEPT ![source] = 1]
    /\ parent' = [i \in Vertices(num_vertices') |-> -1]
    /\ s' = <<source>>
    /\ pc' = "dfs_while"
    /\ UNCHANGED <<graphVars, source, target, q, result, genArgs, genLocals>>

\* One iteration of the while loop of dfs_shortest_path, lines 348-361.
dfs_while ==
    /\ pc = "dfs_while"
    /\ s # << >>
    /\ LET st == dfs_for(g, [visited |-> visited, parent |-> parent,
                             s |-> SubSeq(s, 1, Len(s) - 1)],
                         s[Len(s)], 0, target)
       IN  /\ visited' = st.visited
           /\ parent' = st.parent
           /\ s' = st.s
    /\ UNCHANGED <<graphVars, pc, num_vertices, source, target, q, result,
                   genArgs, genLocals>>

\* dfs_shortest_path once the stack is empty, lines 364-377.
dfs_return ==
    /\ pc = "dfs_while"
    /\ s = << >>
    /\ result' = dfs_result(visited, parent, target)
    /\ pc' = "dfs_return"
    /\ UNCHANGED <<graphVars, num_vertices, source, target, visited, parent, q, s,
                   genArgs, genLocals>>

SearchNext ==
    \/ bfs_start \/ bfs_while \/ bfs_return
    \/ dfs_start \/ dfs_while \/ dfs_return

SearchSpec == SearchInit /\ [][SearchNext]_vars

\* -------------------------------------------------------- generate_graph
\* The values rand() returns for a count or a vertex draw.
RandValues == 0 .. MaxRand

\* All-zero vector<int>(n, 0).
Zeros(n) == [i \in Vertices(n) |-> 0]

\* The bound of line 239 one lower.
max_possible_edges_short == num_vertices - 2

\* int max_possible_edges_per_vertex = num_vertices - 1 (line 239).
max_possible_edges_per_vertex == num_vertices - 1

\* The parameters generate_graph is called with: 1 <= min_vertices <=
\* max_vertices, 0 <= min_edges <= max_edges, caps >= 0; the undirected call
\* passes the caps main passes (1, 1).
GenInit ==
    /\ min_vertices \in 1 .. GenVertices
    /\ max_vertices \in {min_vertices, min_vertices + 1} \cap (1 .. GenVertices)
    /\ min_edges \in 0 .. GenEdges
    /\ max_edges \in {min_edges, min_edges + 1} \cap (0 .. GenEdges)
    /\ \/ directed = FALSE /\ max_incoming_edges = 1 /\ max_outgoing_edges = 1
       \/ /\ directed = TRUE
          /\ max_incoming_edges \in 0 .. MaxCap
          /\ max_outgoing_edges \in 0 .. MaxCap
    /\ pc = "gen_call"
    /\ g = Graph(0, FALSE)
    /\ calls = << >>
    /\ ret = EmptyVec
    /\ num_vertices = 0
    /\ num_edges = 0 /\ drawn_num_edges = 0
    /\ edges_per_vertex = EmptyVec
    /\ incoming_edges_per_vertex = EmptyVec
    /\ outgoing_edges_per_vertex = EmptyVec
    /\ SearchIdle

\* generate_graph, lines 235-244; r1 and r2 are the two rand() values.
gen_start(r1, r2) ==
    /\ pc = "gen_call"
    /\ num_vertices' = (r1 % (max_vertices - min_vertices + 1)) + min_vertices
    /\ g' = Graph(num_vertices', FALSE)
    /\ num_edges' = (r2 % (max_edges - min_edges + 1)) + min_edges
    /\ drawn_num_edges' = num_edges'
    /\ edges_per_vertex' = Zeros(num_vertices')
    /\ incoming_edges_per_vertex' = Zeros(num_vertices')
    /\ outgoing_edges_per_vertex' = Zeros(num_vertices')
    /\ pc' = "gen_while"
    /\ UNCHANGED <<calls, ret, searchVars, genArgs>>

\* The loop is entered (line 246) and draws u, v (lines 247-248).
gen_iteration(u, v) ==
    /\ pc = "gen_while"
    /\ num_edges > 0
    /\ u \in Vertices(num_vertices)
    /\ v \in Vertices(num_vertices)

\* The tests of lines 249, 252, 256 and 260, each reached when those before
\* it fail.
is_self_loop(u, v) == u = v

is_full(u, v) ==
    \/ edges_per_vertex[u] >= max_possible_edges_per_vertex
    \/ edges_per_vertex[v] >= max_possible_edges_per_vertex

\* The test of line 256 with > for >=.
over_degree_off_by_one(u, v) ==
    directed /\ (\/ incoming_edges_per_vertex[v] > max_incoming_edges
                 \/ outgoing_edges_per_vertex[u] > max_outgoing_edges)

over_degree(u, v) ==
    directed /\ (\/ incoming_edges_per_vertex[v] >= max_incoming_edges
                 \/ outgoing_edges_per_vertex[u] >= max_outgoing_edges)

is_present(u, v) == get_adj_matrix(g)[u][v] # 0

\* The weight draw without the + 1.
draw_weight_zero(r) == r % 100

\* rand() % 100 + 1 (line 264).
draw_weight(r) == (r % 100) + 1

\* An iteration that ends at the continue of line 250.
gen_reject_self_loop(u, v) ==
    /\ gen_iteration(u, v)
    /\ is_self_loop(u, v)
    /\ UNCHANGED vars

\* An iteration that ends at the continue of line 253.
gen_reject_full(u, v) ==
    /\ gen_iteration(u, v)
    /\ ~is_self_loop(u, v)
    /\ is_full(u, v)
    /\ UNCHANGED vars

\* An iteration that ends at the continue of line 257.
gen_reject_degree(u, v) ==
    /\ gen_iteration(u, v)
    /\ ~is_self_loop(u, v)
    /\ ~is_full(u, v)
    /\ over_degree(u, v)
    /\ UNCHANGED vars

\* An iteration that ends at the continue of line 261.
gen_reject_present(u, v) ==
    /\ gen_iteration(u, v)
    /\ ~is_self_loop(u, v)
    /\ ~is_full(u, v)
    /\ ~over_degree(u, v)
    /\ is_present(u, v)
    /\ UNCHANGED vars

\* An iteration that places the edge, lines 264-277; r is the rand() value of
\* the weight draw.  The break of line 276 leaves the loop for the return.
gen_accept(u, v, r) ==
    /\ gen_iteration(u, v)
    /\ ~is_self_loop(u, v)
    /\ ~is_full(u, v)
    /\ ~over_degree(u, v)
    /\ ~is_present(u, v)
    /\ g' = add_edge(g, u, v, draw_weight(r))
    /\ calls' = Append(calls, <<u, v, draw_weight(r)>>)
    /\ num_edges' = num_edges - 1
    /\ edges_per_vertex' =
          [[edges_per_vertex EXCEPT ![u] = @ + 1] EXCEPT ![v] = @ + 1]
    /\ incoming_edges_per_vertex' =
          IF directed THEN [incoming_edges_per_vertex EXCEPT ![v] = @ + 1]
          ELSE incoming_edges_per_vertex
    /\ outgoing_edges_per_vertex' =
          IF directed THEN [outgoing_edges_per_vertex EXCEPT ![u] = @ + 1]
          ELSE outgoing_edges_per_vertex
    /\ pc' = IF num_edges' = 0 THEN "gen_return" ELSE "gen_while"
    /\ UNCHANGED <<ret, num_vertices, searchVars, genArgs, drawn_num_edges>>

\* The loop test of line 246 fails and g is returned (line 280).
gen_return ==
    /\ pc = "gen_while"
    /\ ~(num_edges > 0)
    /\ pc' = "gen_return"
    /\ UNCHANGED <<graphVars, num_vertices, searchVars, genArgs, genLocals>>

GenNext ==
    \/ \E r1 \in RandValues, r2 \in RandValues : gen_start(r1, r2)
    \/ \E r1 \in RandValues, r2 \in RandValues :
          LET u == r1 % num_vertices
              v == r2 % num_vertices
          IN  \/ gen_reject_self_loop(u, v)
              \/ gen_reject_full(u, v)
              \/ gen_reject_degree(u, v)
              \/ gen_reject_present(u, v)
              \/ \E r \in WeightRands : gen_accept(u, v, r)
    \/ gen_return

GenSpec == GenInit /\ [][GenNext]_vars

\* generate_graph when the rand() draws of lines 247-248 are fair: an
\* iteration that places an edge is taken if it stays possible.
GenFairSpec == GenSpec /\ WF_vars(GenNext)

\* ------------------------------------------------------------ properties
\* Reachability and hop distance, computed from the adjacency matrix alone.
NonZero(a, b) == get_adj_matrix(g)[a][b] # 0

\* The vertices some walk of at most k nonzero entries reaches from a.
RECURSIVE Within(_, _)
Within(a, k) ==
    IF k = 0 THEN {a}
    ELSE LET W == Within(a, k - 1)
         IN  W \cup {b \in Vertices(g.vertices_) : \E x \in W : NonZero(x, b)}

Reachable(a, b) == b \in Within(a, g.vertices_ - 1)

\* The least number of edges of a walk from a to b (b reachable from a).
MinHops(a, b) ==
    CHOOSE k \in 0 .. (g.vertices_ - 1) :
        /\ b \in Within(a, k)
        /\ k = 0 \/ b \notin Within(a, k - 1)

Returned == pc \in {"bfs_return", "dfs_return"}

\* The graph of g was built by the calls of the record in.
BuiltFrom(in) ==
    /\ g.vertices_ = in.n /\ g.directed_ = in.d /\ calls = in.es

\* C1: when target is reachable from source through nonzero matrix entries,
\* bfs_shortest_path returns a path whose edge count is the minimum hop
\* distance from source to target; on the scenario graph BFS(0,3) is [0,2,3].
C1_BfsMinimumHops ==
    pc = "bfs_return" =>
        /\ Reachable(source, target) =>
              /\ result # << >>
              /\ Len(result) - 1 = MinHops(source, target)
        /\ (BuiltFrom(ScenarioGraph) /\ source = 0 /\ target = 3) =>
              result = <<0, 2, 3>>

\* C1 witness: BFS has returned [0,2,3] on the scenario graph, where the
\* three-edge path 0-1-2-3 exists as well.
C1_Witness ==
    /\ pc = "bfs_return"
    /\ BuiltFrom(ScenarioGraph) /\ source = 0 /\ target = 3
    /\ NonZero(0, 1) /\ NonZero(1, 2) /\ NonZero(2, 3)
    /\ result = <<0, 2, 3>>

\* C2: a non-empty sequence returned by bfs_shortest_path or
\* dfs_shortest_path starts with source, ends with target, and every
\* consecutive pair (a,b) of it has a nonzero adjacencyMatrix[a][b].
C2_PathIsWalk ==
    (Returned /\ result # << >>) =>
        /\ result[1] = source
        /\ result[Len(result)] = target
        /\ \A i \in 1 .. (Len(result) - 1) : NonZero(result[i], result[i + 1])

\* C2 witness: DFS has returned a walk of three edges where two suffice.
C2_Witness ==
    /\ pc = "dfs_return"
    /\ Len(result) = 4
    /\ MinHops(source, target) = 2

\* C3: if target is not reachable from source through nonzero matrix
\* entries, bfs_shortest_path and dfs_shortest_path return the empty sequence.
C3_UnreachableIsEmpty ==
    (Returned /\ ~Reachable(source, target)) => result = << >>

\* C3 witness: BFS has returned for an unreachable target after visiting
\* another vertex, the target itself having an outgoing edge.
C3_Witness ==
    /\ pc = "bfs_return"
    /\ ~Reachable(source, target)
    /\ \E x \in Vertices(g.vertices_) : x # source /\ visited[x] = 1
    /\ \E x \in Vertices(g.vertices_) : NonZero(target, x)
    /\ result = << >>

\* C4: when source = target both searches return exactly [source], also
\* when source has a self-loop or lies on a cycle.
C4_SourceIsTarget ==
    (Returned /\ source = target) => result = <<source>>

\* C4 witness: DFS has returned for source = target where source has a
\* self-loop and lies on a cycle through another vertex.
C4_Witness ==
    /\ pc = "dfs_return"
    /\ source = target
    /\ NonZero(source, source)
    /\ \E x \in Vertices(g.vertices_) :
          x # source /\ NonZero(source, x) /\ NonZero(x, source)
    /\ result = <<source>>

\* C5: in an undirected Graph the adjacency matrix is symmetric after any
\* sequence of add_edge calls, and after add_edge(u,v,w) both
\* adjacencyMatrix[u][v] and adjacencyMatrix[v][u] equal w.
C5_UndirectedSymmetric ==
    ~g.directed_ =>
        /\ \A a \in Vertices(g.vertices_), b \in Vertices(g.vertices_) :
              g.adj_matrix_[a][b] = g.adj_matrix_[b][a]
        /\ calls # << >> =>
              LET c == calls[Len(calls)]
              IN  /\ g.adj_matrix_[c[1]][c[2]] = c[3]
                  /\ g.adj_matrix_[c[2]][c[1]] = c[3]

\* C5 witness: an undirected Graph after add_edge(0,1,2) and then the
\* reversed pair add_edge(1,0,3).
C5_Witness ==
    /\ pc = "graph"
    /\ ~g.directed_
    /\ calls = << <<0, 1, 2>>, <<1, 0, 3>> >>
    /\ g.adj_matrix_[0][1] = 3

\* C6: in a directed Graph, add_edge(u,v,w) with u # v leaves
\* adjacencyMatrix[v][u] and every other entry than [u][v] unchanged.
C6_DirectedFrame ==
    [][ (g.directed_ /\ Len(calls') = Len(calls) + 1) =>
          LET c == calls'[Len(calls')]
          IN  c[1] # c[2] =>
                 \A a \in Vertices(g.vertices_), b \in Vertices(g.vertices_) :
                    <<a, b>> # <<c[1], c[2]>> =>
                       g'.adj_matrix_[a][b] = g.adj_matrix_[a][b] ]_vars

\* C6 witness: a directed Graph after add_edge(1,0,2) and add_edge(0,1,3);
\* the entry [1][0] still holds 2.
C6_Witness ==
    /\ pc = "graph"
    /\ g.directed_
    /\ calls = << <<1, 0, 2>>, <<0, 1, 3>> >>
    /\ g.adj_matrix_[1][0] = 2
    /\ g.adj_matrix_[0][1] = 3

\* C7: after n add_edge calls (duplicates, self-loops and zero weights
\* included) get_edges returns exactly n pairs, the i-th being the (u,v) of
\* the i-th call.
C7_EdgesAreCalls ==
    /\ Len(get_edges(g)) = Len(calls)
    /\ \A i \in 1 .. Len(calls) : get_edges(g)[i] = <<calls[i][1], calls[i][2]>>

\* C7 witness: two calls, the second repeating the pair of the first in
\* reverse with weight zero, and a self-loop among them.
C7_Witness ==
    /\ pc = "graph"
    /\ Len(calls) = 2
    /\ calls[1][1] = calls[1][2]
    /\ calls[2] = <<calls[1][2], calls[1][1], 0>>
    /\ Len(get_edges(g)) = 2

\* What C8 says of the matrix M returned for the Graph G.
IncidenceOf(M, G) ==
    /\ DOMAIN M = Vertices(G.vertices_)
    /\ \A r \in Vertices(G.vertices_) : DOMAIN M[r] = Vertices(Len(G.edges_))
    /\ \A i \in Vertices(Len(G.edges_)) :
          LET u == G.edges_[i + 1][1]
              v == G.edges_[i + 1][2]
              w == abs(G.adj_matrix_[u][v])
          IN  u # v =>
                 /\ M[u][i] = w
                 /\ M[v][i] = IF G.directed_ THEN -w ELSE w
                 /\ \A r \in Vertices(G.vertices_) \ {u, v} : M[r][i] = 0

\* C8: the first get_inc_matrix call returns a vertexCount x m matrix whose
\* column i, for edge i = (u,v) with u # v and w = |adjacencyMatrix[u][v]|,
\* holds w at row u, -w (directed) or w (undirected) at row v and 0
\* elsewhere; 3 vertices with undirected edges (0,1,2),(1,2,3) give the
\* columns (2,2,0) and (0,3,3).
C8_FirstIncidenceMatrix ==
    [][ (empty(g.inc_matrix_) /\ ~empty(g'.inc_matrix_)) =>
          /\ IncidenceOf(ret', g)
          /\ (g.vertices_ = 3 /\ ~g.directed_
                /\ calls = << <<0, 1, 2>>, <<1, 2, 3>> >>) =>
                ret' = [r \in 0 .. 2 |->
                          [c \in 0 .. 1 |->
                             IF c = 0 THEN (IF r = 2 THEN 0 ELSE 2)
                                      ELSE (IF r = 0 THEN 0 ELSE 3)]] ]_vars

\* C8 witness: the first get_inc_matrix call on the scenario graph has
\* returned a matrix with row 1 = (2, 3).
C8_Witness ==
    /\ pc = "graph"
    /\ g.vertices_ = 3 /\ ~g.directed_
    /\ calls = << <<0, 1, 2>>, <<1, 2, 3>> >>
    /\ ~empty(ret)
    /\ DOMAIN ret[1] = {0, 1}
    /\ ret[1][0] = 2 /\ ret[1][1] = 3

\* The number of positions of the sequence es that satisfy P.
Count(es, P(_)) == Cardinality({i \in 1 .. Len(es) : P(es[i])})

\* C9: whenever generate_graph returns, directed or not, the graph has a
\* vertex count in [min_vertices, max_vertices], its edge list holds exactly
\* the drawn edge count (a value in [min_edges, max_edges]), no edge is a
\* self-loop and no two edges have the same ordered pair.
C9_GeneratedGraph ==
    pc = "gen_return" =>
        /\ g.vertices_ >= min_vertices /\ g.vertices_ <= max_vertices
        /\ Len(get_edges(g)) = drawn_num_edges
        /\ drawn_num_edges >= min_edges /\ drawn_num_edges <= max_edges
        /\ \A i \in 1 .. Len(get_edges(g)) : get_edges(g)[i][1] # get_edges(g)[i][2]
        /\ \A i \in 1 .. Len(get_edges(g)), j \in 1 .. Len(get_edges(g)) :
              i # j => get_edges(g)[i] # get_edges(g)[j]

\* C9 witness: generate_graph has returned three edges on three vertices,
\* both drawn from ranges of two values.
C9_Witness ==
    /\ pc = "gen_return"
    /\ min_vertices < max_vertices /\ min_edges < max_edges
    /\ g.vertices_ = 3
    /\ Len(get_edges(g)) = 3

\* C10: in every state of generate_graph with directed = true, and in the
\* graph returned, no vertex is the head of more than max_incoming_edges
\* edges of the edge list nor the tail of more than max_outgoing_edges.
C10_DegreeCaps ==
    directed =>
        \A x \in Vertices(g.vertices_) :
            /\ Count(get_edges(g), LAMBDA e : e[2] = x) <= max_incoming_edges
            /\ Count(get_edges(g), LAMBDA e : e[1] = x) <= max_outgoing_edges

\* C10 witness: a directed generate_graph has returned two edges with a
\* vertex at its in-degree cap and a vertex at its out-degree cap.
C10_Witness ==
    /\ pc = "gen_return"
    /\ directed
    /\ Len(get_edges(g)) = 2
    /\ \E x \in Vertices(g.vertices_) :
          Count(get_edges(g), LAMBDA e : e[2] = x) = max_incoming_edges
    /\ \E x \in Vertices(g.vertices_) :
          Count(get_edges(g), LAMBDA e : e[1] = x) = max_outgoing_edges

\* The pair (u, v) passes the four tests of the loop of generate_graph.
CanPlace(u, v) ==
    /\ ~is_self_loop(u, v)
    /\ ~is_full(u, v)
    /\ ~over_degree(u, v)
    /\ ~is_present(u, v)

\* generate_graph is in its loop with edges still to place.
Placing == pc = "gen_while" /\ num_edges > 0

\* C11: when the drawn edge count cannot be placed, generate_graph ends in
\* an InfeasibleConstraints failure instead of staying in the rejection loop:
\* the loop is never in a state with edges still to place in which every
\* pair (u, v) is rejected (such a state has no successor but itself).
C11_InfeasibleFails ==
    Placing =>
        \E u \in Vertices(num_vertices), v \in Vertices(num_vertices) : CanPlace(u, v)

\* C12: add_edge with u or v outside [0, vertexCount), and the searches with
\* source or target outside [0, vertexCount), end in a defined OutOfRange
\* outcome and leave the adjacency matrix, adjacency list and edge list
\* unchanged.  (In RangeSpec only an out-of-range call changes pc.)
C12_OutOfRangeDefined ==
    [][ (pc = "graph" /\ pc' # "graph") =>
          /\ pc' = "out_of_range"
          /\ get_adj_matrix(g') = get_adj_matrix(g)
          /\ get_adj_list(g') = get_adj_list(g)
          /\ get_edges(g') = get_edges(g) ]_vars

\* C13: for a Graph with vertexCount >= 1, once get_inc_matrix has been
\* called (even with the edge list still empty), every later get_inc_matrix
\* call returns the matrix of the first call, whatever add_edge calls
\* happen in between.
C13_StaleCache ==
    [][ (g.vertices_ >= 1 /\ ~empty(ret)) => ret' = ret ]_vars

\* C13 witness: get_inc_matrix was called on a Graph without edges, two
\* add_edge calls with nonzero weights followed, and the matrix returned
\* still has no column.
C13_Witness ==
    /\ pc = "graph"
    /\ g.vertices_ >= 1
    /\ ~empty(ret)
    /\ \A r \in DOMAIN ret : DOMAIN ret[r] = {}
    /\ ret = g.inc_matrix_
    /\ Len(calls) = 2
    /\ calls[1][3] # 0 /\ calls[2][3] # 0

\* C14: generate_graph called with directed = true builds a directed Graph:
\* accepting edge (u,v) sets only adjacencyMatrix[u][v], so every nonzero
\* matrix entry [a][b] of the graph under construction belongs to an
\* accepted pair (a,b) of its edge list.
C14_DirectedGenerated ==
    (directed /\ pc # "gen_call") =>
        /\ g.directed_
        /\ \A a \in Vertices(g.vertices_), b \in Vertices(g.vertices_) :
              get_adj_matrix(g)[a][b] # 0 =>
                  \E i \in DOMAIN get_edges(g) : get_edges(g)[i] = <<a, b>>

\* The call is undirected, has at least two vertices and a target edge count
\* of at most vertexCount * (vertexCount - 1) / 2.
Feasible ==
    /\ ~directed
    /\ pc # "gen_call"
    /\ num_vertices >= 2
    /\ 2 * drawn_num_edges <= num_vertices * (num_vertices - 1)

\* C15: in undirected mode with vertexCount >= 2 and a target edge count of
\* at most vertexCount*(vertexCount-1)/2, every state of the rejection loop
\* with edges still to place has a pair (u,v) that passes all rejection
\* tests, and under fair choice of (u,v) the call reaches its return with
\* exactly the target number of edges placed.
C15_FeasibleTerminates ==
    /\ []((Feasible /\ Placing) =>
            \E u \in Vertices(num_vertices), v \in Vertices(num_vertices) :
                CanPlace(u, v))
    /\ (Feasible /\ pc = "gen_while") ~>
            (/\ pc = "gen_return"
             /\ num_edges = 0
             /\ Len(get_edges(g)) = drawn_num_edges)

\* C15 witness: an undirected call on three vertices returned with all three
\* possible edges placed.
C15_Witness ==
    /\ Feasible
    /\ pc = "gen_return"
    /\ num_vertices = 3
    /\ drawn_num_edges = 3
    /\ Len(get_edges(g)) = 3

\* A search is between its setup and its return.
Searching == pc \in {"bfs_while", "dfs_while", "bfs_return", "dfs_return"}

\* Following par from v arrives at a within k steps.
RECURSIVE Climbs(_, _, _, _)
Climbs(par, v, a, k) ==
    IF v = a THEN TRUE
    ELSE IF k = 0 \/ par[v] = -1 THEN FALSE
    ELSE Climbs(par, par[v], a, k - 1)

NoRepeat(path) ==
    \A i \in DOMAIN path, j \in DOMAIN path : path[i] = path[j] => i = j

\* C16: in both searches, in every state of the search loop, parent[source]
\* stays -1; parent[v] is assigned exactly when v is first marked visited and
\* is never overwritten; following parent from a visited vertex reaches
\* source in fewer than vertexCount steps; the returned path holds no vertex
\* twice.
C16_ParentLinks ==
    /\ [](Searching =>
            /\ parent[source] = -1
            /\ \A v \in DOMAIN parent :
                  /\ parent[v] # -1 <=> (visited[v] # 0 /\ v # source)
                  /\ visited[v] # 0 =>
                        Climbs(parent, v, source, num_vertices - 1)
            /\ NoRepeat(result))
    /\ [][ (Searching /\ Searching') =>
             \A v \in DOMAIN parent :
                /\ parent[v] # -1 => parent'[v] = parent[v]
                /\ visited[v] # 0 => visited'[v] # 0
                /\ parent'[v] # parent[v] <=> visited'[v] # visited[v] ]_vars

\* C16 witness: a search returned a path of three vertices while the matrix
\* holds a nonzero entry from a visited vertex u to a visited vertex v, other
\* than source, whose parent is not u.
C16_Witness ==
    /\ pc \in {"bfs_return", "dfs_return"}
    /\ Len(result) >= 3
    /\ \E u \in DOMAIN parent, v \in DOMAIN parent :
          /\ get_adj_matrix(g)[u][v] # 0
          /\ visited[u] # 0 /\ visited[v] # 0
          /\ v # source /\ parent[v] # u

\* The walks of k edges from a to b through nonzero matrix entries.
Walks(a, b, k) ==
    { w \in [1 .. (k + 1) -> Vertices(g.vertices_)] :
        /\ w[1] = a /\ w[k + 1] = b
        /\ \A i \in 1 .. k : NonZero(w[i], w[i + 1]) }

\* Lexicographic order on sequences of one length.
LexLeq(x, y) ==
    \/ x = y
    \/ \E i \in DOMAIN x :
          /\ x[i] < y[i]
          /\ \A j \in 1 .. (i - 1) : x[j] = y[j]

\* C17: when target is reachable, the sequence bfs_shortest_path returns is
\* a minimum-hop path and is lexicographically smallest among all
\* minimum-hop source-to-target paths.
C17_BfsLexSmallest ==
    (pc = "bfs_return" /\ Reachable(source, target)) =>
        /\ result \in Walks(source, target, MinHops(source, target))
        /\ \A w \in Walks(source, target, MinHops(source, target)) :
              LexLeq(result, w)

\* C17 witness: BFS(0,3) on the diamond graph returned [0,1,3] although
\* [0,2,3] has as few edges and its edges were added first.
C17_Witness ==
    /\ pc = "bfs_return"
    /\ BuiltFrom(DiamondGraph) /\ source = 0 /\ target = 3
    /\ <<0, 2, 3>> \in Walks(source, target, MinHops(source, target))
    /\ result = <<0, 1, 3>>

\* C18: if target is reachable from source through nonzero matrix entries,
\* dfs_shortest_path returns a non-empty sequence ending at target; the
\* break after pushing target never makes a reachable target unreachable.
C18_DfsFindsReachable ==
    (pc = "dfs_return" /\ Reachable(source, target)) =>
        /\ result # << >>
        /\ result[Len(result)] = target

\* C18 witness: DFS returned a path although the break left a neighbour of
\* target's parent, reachable from source, unvisited.
C18_Witness ==
    /\ pc = "dfs_return"
    /\ result # << >>
    /\ source # target
    /\ \E w \in DOMAIN visited :
          /\ w > target
          /\ NonZero(parent[target], w)
          /\ Reachable(source, w)
          /\ visited[w] = 0

\* C19: after add_edge calls with nonzero weights, on a directed or an
\* undirected Graph, v appears as a neighbour in adjacencyList[u] if and only
\* if adjacencyMatrix[u][v] is nonzero.
C19_ListAgreesWithMatrix ==
    (pc = "graph" /\ \A i \in DOMAIN calls : calls[i][3] # 0) =>
        \A u \in Vertices(g.vertices_), v \in Vertices(g.vertices_) :
            (\E i \in DOMAIN get_adj_list(g)[u] : get_adj_list(g)[u][i][1] = v)
                <=> get_adj_matrix(g)[u][v] # 0

\* Every add_edge call so far had u # v and a positive weight.
PlainCalls == \A i \in DOMAIN calls : calls[i][1] # calls[i][2] /\ calls[i][3] > 0

\* The j-th add_edge call wrote adjacencyMatrix[a][b].
Wrote(j, a, b) ==
    \/ calls[j][1] = a /\ calls[j][2] = b
    \/ ~g.directed_ /\ calls[j][1] = b /\ calls[j][2] = a

\* The weight of the last add_edge call that wrote adjacencyMatrix[a][b].
LastWeight(a, b) ==
    LET j == CHOOSE k \in DOMAIN calls :
                /\ Wrote(k, a, b)
                /\ \A l \in DOMAIN calls : Wrote(l, a, b) => l <= k
    IN  calls[j][3]

\* C20 as stated: after add_edge calls with u # v and positive weights,
\* repeated or reversed pairs allowed, the first get_inc_matrix result
\* carries in column i, at the rows of the i-th edge's endpoints, the
\* absolute weight passed to the i-th add_edge call.
C20_ColumnCarriesCallWeight ==
    [][ (empty(g.inc_matrix_) /\ ~empty(g'.inc_matrix_) /\ PlainCalls) =>
          \A i \in DOMAIN calls :
             /\ abs(ret'[calls[i][1]][i - 1]) = abs(calls[i][3])
             /\ abs(ret'[calls[i][2]][i - 1]) = abs(calls[i][3]) ]_vars

\* C20 amended: under the same conditions column i carries, at the rows of
\* the i-th edge's endpoints (u,v), the absolute weight of the last add_edge
\* call that wrote adjacencyMatrix[u][v]: the last call with the pair (u,v)
\* or, on an undirected Graph, with (u,v) or (v,u).
C20_ColumnCarriesLastWeight ==
    [][ (empty(g.inc_matrix_) /\ ~empty(g'.inc_matrix_) /\ PlainCalls) =>
          \A i \in DOMAIN calls :
             /\ abs(ret'[calls[i][1]][i - 1])
                   = abs(LastWeight(calls[i][1], calls[i][2]))
             /\ abs(ret'[calls[i][2]][i - 1])
                   = abs(LastWeight(calls[i][1], calls[i][2])) ]_vars

\* C20 witness: the first get_inc_matrix call after add_edge(u,v,2) and a
\* second add_edge with weight 3 that wrote the same matrix entry returned a
\* matrix whose column 0 carries 3 at row u.
C20_Witness ==
    /\ pc = "graph"
    /\ ~empty(ret)
    /\ ret = g.inc_matrix_
    /\ PlainCalls
    /\ Len(calls) = 2
    /\ calls[1][3] = 2 /\ calls[2][3] = 3
    /\ Wrote(2, calls[1][1], calls[1][2])
    /\ DOMAIN ret[calls[1][1]] = {0, 1}
    /\ ret[calls[1][1]][0] = 3

====
